---- MODULE Spec2Model ----
(***************************************************************************)
(* The MLNode load balancer (mlnode/packages/load_balancer): the backend   *)
(* pool with its per-backend accounting, the monitor tasks, least-loaded   *)
(* selection, and the streaming proxy handlers with their release          *)
(* discipline.                                                             *)
(*                                                                         *)
(* Every task is a coroutine on one asyncio loop.  A step of the model is  *)
(* the code between two awaits; every await is a possible suspension       *)
(* point, so the steps of different tasks interleave freely.               *)
(***************************************************************************)
EXTENDS Integers, Sequences, FiniteSets

----------------------------------------------------------------------------
(* Bounds *)

\* backends configured in MLNODE_BACKENDS for the application specifications
NumBackends == 2
\* request tasks of the application specifications
NumRequests == 2
\* backends, pickers and initial load of the selection specifications
SelBackends == 3
SelRequests == 2
\* pickers on the idle pool
IdleRequests == 4
MaxLoad == 3
\* backends with their monitors, and pickers beside them
PickBackends == 1
PickRequests == 2
\* characters of a request path of the middleware specification
MaxPathLen == 7

----------------------------------------------------------------------------
(* Values *)

\* Python's None
None == "None"

\* lifecycle states a backend reports to the monitors of the application
ReportedStates == {"INFERENCE", "POW"}

\* lifecycle states for the aggregate: the priority list, a state outside it
\* and the empty string (falsy in Python)
StateValues == {"INFERENCE", "POW", "TRAIN", "STOPPED", "LOADING", ""}

\* no task
Free == 0

\* no request in the middleware
NoRequest == [pc |-> "none"]

VARIABLES
    backends,       \* BackendPool.backends: sequence of Backend records
    pick_lock,      \* BackendPool._pick_lock: the task holding it, or Free
    monitor_tasks,  \* app.state.monitor_tasks: position of each monitor task
    req,            \* the request tasks: position and what each one did
    clamped,        \* some mark_request_done ran with active_requests = 0
    aggregate,      \* "state" of the last GET /api/v1/state answer
    lifespan,       \* lifespan: serving, or its position in the shutdown
    client,         \* app.state.client (httpx.AsyncClient): "open" or "closed"
    last_poll,      \* the responses of a monitor's cycle, where recorded
    request,        \* the middleware's request: its scope and its routing
    reported        \* what each monitor has completed since startup, where kept

vars ==
    <<backends, pick_lock, monitor_tasks, req, clamped, aggregate,
      lifespan, client, last_poll, request, reported>>

\* indices of the pool, in configuration order
Pool == DOMAIN backends

Tasks == DOMAIN req

----------------------------------------------------------------------------
(* backends.py: Backend *)

\* Backend(url, settings): the dataclass defaults
Backend == [state |-> None, healthy |-> FALSE, active_requests |-> 0, lock |-> Free]

\* body of mark_request_start under self._lock
mark_request_start(b) == [b EXCEPT !.active_requests = @ + 1]

mark_request_done_unclamped(b) == [b EXCEPT !.active_requests = @ - 1]

\* body of mark_request_done under self._lock
mark_request_done(b) ==
    IF b.active_requests > 0 THEN [b EXCEPT !.active_requests = @ - 1] ELSE b

is_available_healthy_only(b) == b.healthy

is_available(b) == b.healthy /\ b.state = "INFERENCE"

----------------------------------------------------------------------------
(* backends.py: BackendPool *)

RECURSIVE Indices(_)
Indices(n) == IF n = 0 THEN <<>> ELSE Append(Indices(n - 1), n)

candidates_in_inference(pool) ==
    SelectSeq(Indices(Len(pool)), LAMBDA i : pool[i].state = "INFERENCE")

\* [b for b in self.backends if b.is_available()], as indices
candidates(pool) == SelectSeq(Indices(Len(pool)), LAMBDA i : is_available(pool[i]))

\* Python's min(iterable, key=...): the first element whose key is smallest
RECURSIVE min_scan(_, _, _)
min_scan(pool, rest, best) ==
    IF rest = <<>> THEN best
    ELSE min_scan(pool, Tail(rest),
                  IF pool[Head(rest)].active_requests < pool[best].active_requests
                  THEN Head(rest) ELSE best)

RECURSIVE min_scan_last(_, _, _)
min_scan_last(pool, rest, best) ==
    IF rest = <<>> THEN best
    ELSE min_scan_last(pool, Tail(rest),
                       IF pool[Head(rest)].active_requests <= pool[best].active_requests
                       THEN Head(rest) ELSE best)

min_active_last(pool, cands) == min_scan_last(pool, Tail(cands), Head(cands))

min_active_first_candidate(pool, cands) == Head(cands)

\* min(candidates, key=lambda b: b.active_requests)
min_active(pool, cands) == min_scan(pool, Tail(cands), Head(cands))

any_healthy_flag_only(pool) == \E i \in DOMAIN pool : pool[i].healthy

\* any(b.is_available() for b in self.backends)
any_healthy(pool) == \E i \in DOMAIN pool : is_available(pool[i])

\* the truth value Python gives a state in "if b.state"
Truthy(s) == s # None /\ s # ""

\* aggregate_state: the priority list
priority == <<"INFERENCE", "POW", "TRAIN", "STOPPED">>

\* [b.state for b in self.backends if b.state], as a set ("in" only asks
\* for membership)
known_states(pool) == {pool[i].state : i \in {j \in DOMAIN pool : Truthy(pool[j].state)}}

\* for state in priority: if state in states: return state
RECURSIVE first_listed(_, _)
first_listed(prio, states) ==
    IF prio = <<>> THEN "STOPPED"
    ELSE IF Head(prio) \in states THEN Head(prio)
    ELSE first_listed(Tail(prio), states)

aggregate_state_first_backend(pool) ==
    LET listed == SelectSeq(Indices(Len(pool)),
                            LAMBDA i : \E k \in DOMAIN priority : priority[k] = pool[i].state)
    IN IF listed = <<>> THEN "STOPPED" ELSE pool[Head(listed)].state

aggregate_state(pool) == first_listed(priority, known_states(pool))


----------------------------------------------------------------------------
(* The request tasks *)

\* a request task before the request arrives
NewRequest ==
    [pc |-> "idle", kind |-> "none", backend |-> 0, status |-> 0, detail |-> "",
     outcome |-> "none", upstream |-> "none", starts |-> 0, releases |-> 0]

\* raise HTTPException(status_code=code, detail=detail) ends the handler
Raise(r, code, detail) ==
    [req EXCEPT ![r].pc = "done", ![r].status = code, ![r].detail = detail]

\* GET|POST|... /v1/{path}: proxy_inference calls _proxy_request, which awaits
\* pick_backend
proxy_inference(r) ==
    /\ req[r].pc = "idle"
    /\ req' = [req EXCEPT ![r].pc = "pick", ![r].kind = "proxy"]
    /\ UNCHANGED <<backends, pick_lock, monitor_tasks, clamped, aggregate,
                   lifespan, client, last_poll, request, reported>>

pick_acquire_unlocked(r) ==
    /\ req[r].pc = "pick"
    /\ req' = [req EXCEPT ![r].pc = "choose"]
    /\ UNCHANGED <<backends, pick_lock, monitor_tasks, clamped, aggregate,
                   lifespan, client, last_poll, request, reported>>

\* pick_backend: async with self._pick_lock (entry)
pick_acquire(r) ==
    /\ req[r].pc = "pick"
    /\ pick_lock = Free
    /\ pick_lock' = r
    /\ req' = [req EXCEPT ![r].pc = "choose"]
    /\ UNCHANGED <<backends, monitor_tasks, clamped, aggregate,
                   lifespan, client, last_poll, request, reported>>

pick_choose_lock_kept(r) ==
    /\ req[r].pc = "choose"
    /\ LET cands == candidates(backends) IN
         req' = IF cands = <<>>
                THEN [Raise(r, 503, "No healthy inference backends available")
                          EXCEPT ![r].kind = "proxy", ![r].outcome = "unavailable"]
                ELSE [req EXCEPT ![r].pc = "start_lock",
                                 ![r].backend = min_active(backends, cands)]
    /\ UNCHANGED <<backends, pick_lock, monitor_tasks, clamped, aggregate,
                   lifespan, client, last_poll, request, reported>>

\* pick_backend under the lock: the candidates, then either RuntimeError
\* (the lock is left, _proxy_request answers 503) or the least-loaded
\* candidate, on which mark_request_start is awaited
pick_choose(r) ==
    /\ req[r].pc = "choose"
    /\ LET cands == candidates(backends) IN
         IF cands = <<>>
         THEN /\ pick_lock' = Free
              /\ req' = [Raise(r, 503, "No healthy inference backends available")
                            EXCEPT ![r].kind = "proxy", ![r].outcome = "unavailable"]
         ELSE /\ pick_lock' = pick_lock
              /\ req' = [req EXCEPT ![r].pc = "start_lock",
                                    ![r].backend = min_active(backends, cands)]
    /\ UNCHANGED <<backends, monitor_tasks, clamped, aggregate,
                   lifespan, client, last_poll, request, reported>>

\* mark_request_start: async with self._lock (entry)
start_acquire(r) ==
    /\ req[r].pc = "start_lock"
    /\ backends[req[r].backend].lock = Free
    /\ backends' = [backends EXCEPT ![req[r].backend].lock = r]
    /\ req' = [req EXCEPT ![r].pc = "start_inc"]
    /\ UNCHANGED <<pick_lock, monitor_tasks, clamped, aggregate,
                   lifespan, client, last_poll, request, reported>>

\* mark_request_start: the increment, the lock is left; pick_backend then
\* leaves _pick_lock and returns the backend, and the handler builds the
\* upstream request and awaits context.__aenter__()
start_increment(r) ==
    /\ req[r].pc = "start_inc"
    /\ LET i == req[r].backend IN
         backends' = [backends EXCEPT ![i] = [mark_request_start(@) EXCEPT !.lock = Free]]
    /\ pick_lock' = IF pick_lock = r THEN Free ELSE pick_lock
    /\ req' = IF req[r].kind = "mark_request_start"
              THEN [req EXCEPT ![r].pc = "done", ![r].starts = @ + 1]
              ELSE [req EXCEPT ![r].pc = "open", ![r].starts = @ + 1,
                               ![r].upstream = "opening"]
    /\ UNCHANGED <<monitor_tasks, clamped, aggregate,
                   lifespan, client, last_poll, request, reported>>


proxy_fallback_least_loaded(r) ==
    /\ req[r].pc = "idle"
    /\ req' = IF Len(backends) = 0
              THEN [Raise(r, 503, "No MLNode backends configured")
                        EXCEPT ![r].kind = "fallback", ![r].outcome = "unconfigured"]
              ELSE [req EXCEPT ![r].pc = "start_lock", ![r].kind = "fallback",
                               ![r].backend = IF candidates(backends) = <<>> THEN 1
                                              ELSE min_active(backends, candidates(backends))]
    /\ UNCHANGED <<backends, pick_lock, monitor_tasks, clamped, aggregate,
                   lifespan, client, last_poll, request, reported>>

\* Any other path: proxy_fallback takes the first configured backend without
\* selection and awaits its mark_request_start
proxy_fallback(r) ==
    /\ req[r].pc = "idle"
    /\ req' = IF Len(backends) = 0
              THEN [Raise(r, 503, "No MLNode backends configured")
                        EXCEPT ![r].kind = "fallback", ![r].outcome = "unconfigured"]
              ELSE [req EXCEPT ![r].pc = "start_lock", ![r].kind = "fallback",
                               ![r].backend = 1]
    /\ UNCHANGED <<backends, pick_lock, monitor_tasks, clamped, aggregate,
                   lifespan, client, last_poll, request, reported>>

open_ok_released_at_headers(r) ==
    /\ req[r].pc = "open"
    /\ req' = [req EXCEPT ![r].pc = "release_lock", ![r].status = 200,
                          ![r].upstream = "open"]
    /\ UNCHANGED <<backends, pick_lock, monitor_tasks, clamped, aggregate,
                   lifespan, client, last_poll, request, reported>>

\* context.__aenter__() returns the upstream response: the handler returns
\* StreamingResponse(upstream.aiter_raw(), status_code=upstream.status_code,
\* background=BackgroundTask(_cleanup)) and the framework starts to stream
open_ok(r) ==
    /\ req[r].pc = "open"
    /\ req' = [req EXCEPT ![r].pc = "stream", ![r].status = 200,
                          ![r].upstream = "open"]
    /\ UNCHANGED <<backends, pick_lock, monitor_tasks, clamped, aggregate,
                   lifespan, client, last_poll, request, reported>>

open_failed_unreleased(r) ==
    /\ req[r].pc = "open"
    /\ req' = [Raise(r, 502, "Upstream request failed")
                  EXCEPT ![r].upstream = "failed", ![r].outcome = "open_failed"]
    /\ UNCHANGED <<backends, pick_lock, monitor_tasks, clamped, aggregate,
                   lifespan, client, last_poll, request, reported>>

\* context.__aenter__() raises an Exception: the except branch closes the
\* context (errors suppressed) and awaits the release of the backend
open_failed(r) ==
    /\ req[r].pc = "open"
    /\ req' = [req EXCEPT ![r].pc = "release_lock", ![r].upstream = "failed",
                          ![r].outcome = "open_failed"]
    /\ UNCHANGED <<backends, pick_lock, monitor_tasks, clamped, aggregate,
                   lifespan, client, last_poll, request, reported>>

\* the task is cancelled while it awaits the upstream open or while the
\* framework streams the body: CancelledError is a BaseException, which
\* "except Exception" does not catch, and the framework awaits the background
\* task only after the body was sent without an exception
cancel(r) ==
    /\ req[r].pc \in {"open", "stream"}
    /\ req' = [req EXCEPT ![r].pc = "done", ![r].outcome = "cancelled"]
    /\ UNCHANGED <<backends, pick_lock, monitor_tasks, clamped, aggregate,
                   lifespan, client, last_poll, request, reported>>

\* the body iterator upstream.aiter_raw() is exhausted and the last chunk was
\* sent: the framework awaits the background task _cleanup
stream_complete(r) ==
    /\ req[r].pc = "stream"
    /\ req' = [req EXCEPT ![r].pc = "cleanup", ![r].outcome = "completed"]
    /\ UNCHANGED <<backends, pick_lock, monitor_tasks, clamped, aggregate,
                   lifespan, client, last_poll, request, reported>>

\* the client disconnects while the body is streamed: the framework stops
\* the body iterator and awaits the background task _cleanup
client_disconnect(r) ==
    /\ req[r].pc = "stream"
    /\ req' = [req EXCEPT ![r].pc = "cleanup", ![r].outcome = "disconnected"]
    /\ UNCHANGED <<backends, pick_lock, monitor_tasks, clamped, aggregate,
                   lifespan, client, last_poll, request, reported>>

\* upstream.aiter_raw() raises while the framework streams the body: the
\* exception leaves the response call, the background task (which the
\* framework awaits after the body was sent) is never awaited
stream_failed(r) ==
    /\ req[r].pc = "stream"
    /\ req' = [req EXCEPT ![r].pc = "done", ![r].outcome = "stream_failed",
                          ![r].upstream = "broken"]
    /\ UNCHANGED <<backends, pick_lock, monitor_tasks, clamped, aggregate,
                   lifespan, client, last_poll, request, reported>>

\* _cleanup: await context.__aexit__(None, None, None); the finally clause
\* then awaits the release whether or not the close raised
cleanup(r) ==
    /\ req[r].pc = "cleanup"
    /\ req' = [req EXCEPT ![r].pc = "release_lock", ![r].upstream = "closed"]
    /\ UNCHANGED <<backends, pick_lock, monitor_tasks, clamped, aggregate,
                   lifespan, client, last_poll, request, reported>>

\* release_backend -> mark_request_done: async with self._lock (entry)
release_acquire(r) ==
    /\ req[r].pc = "release_lock"
    /\ backends[req[r].backend].lock = Free
    /\ backends' = [backends EXCEPT ![req[r].backend].lock = r]
    /\ req' = [req EXCEPT ![r].pc = "release_dec"]
    /\ UNCHANGED <<pick_lock, monitor_tasks, clamped, aggregate,
                   lifespan, client, last_poll, request, reported>>

\* mark_request_done: the clamped decrement, the lock is left; on the except
\* branch of the handler HTTPException(502) is raised next
release_decrement(r) ==
    /\ req[r].pc = "release_dec"
    /\ LET i == req[r].backend IN
         /\ backends' = [backends EXCEPT ![i] = [mark_request_done(@) EXCEPT !.lock = Free]]
         /\ clamped' = (clamped \/ backends[i].active_requests = 0)
    /\ req' = IF req[r].outcome = "open_failed"
              THEN [Raise(r, 502, "Upstream request failed") EXCEPT ![r].releases = @ + 1]
              ELSE [req EXCEPT ![r].pc = "done", ![r].releases = @ + 1]
    /\ UNCHANGED <<pick_lock, monitor_tasks, aggregate,
                   lifespan, client, last_poll, request, reported>>

\* a caller of the pool's API awaits backend.mark_request_start() itself
call_mark_request_start(r, i) ==
    /\ req[r].pc = "idle"
    /\ req' = [req EXCEPT ![r].pc = "start_lock", ![r].kind = "mark_request_start",
                          ![r].backend = i]
    /\ UNCHANGED <<backends, pick_lock, monitor_tasks, clamped, aggregate,
                   lifespan, client, last_poll, request, reported>>

\* a caller of the pool's API awaits release_backend(backend), that is
\* backend.mark_request_done(), itself
call_mark_request_done(r, i) ==
    /\ req[r].pc = "idle"
    /\ req' = [req EXCEPT ![r].pc = "release_lock", ![r].kind = "mark_request_done",
                          ![r].backend = i]
    /\ UNCHANGED <<backends, pick_lock, monitor_tasks, clamped, aggregate,
                   lifespan, client, last_poll, request, reported>>

----------------------------------------------------------------------------
(* monitor.py *)

\* what client.get can end with: no response (network error, timeout), or a
\* response with a status and a body
NoBody == [kind |-> "none", has_state |-> FALSE, state |-> None]
Text == [kind |-> "text", has_state |-> FALSE, state |-> None]
JsonNull == [kind |-> "null", has_state |-> FALSE, state |-> None]
JsonArray == [kind |-> "array", has_state |-> FALSE, state |-> None]
JsonObject(s) == [kind |-> "object", has_state |-> TRUE, state |-> s]
JsonObjectNoState == [kind |-> "object", has_state |-> FALSE, state |-> None]

Bodies == {Text, JsonNull, JsonArray, JsonObjectNoState}
              \cup {JsonObject(s) : s \in ReportedStates \cup {None}}

\* the outcomes of the state poll: a network error, a timeout, a status other
\* than 200, and 200 with each body
StatePolls ==
    {[net |-> n, status |-> 0, body |-> NoBody] : n \in {"error", "timeout"}}
        \cup {[net |-> "ok", status |-> 500, body |-> Text]}
        \cup {[net |-> "ok", status |-> 200, body |-> b] : b \in Bodies}

\* the outcomes of the health poll, whose body is not read
HealthPolls ==
    {[net |-> n, status |-> 0, body |-> NoBody] : n \in {"error", "timeout"}}
        \cup {[net |-> "ok", status |-> c, body |-> Text] : c \in {200, 500}}

\* no response
NoPoll == [net |-> "none", status |-> 0, body |-> NoBody]

\* the responses of one monitor cycle; they are recorded for the monitors
\* whose record starts as Recording
Unrecorded == [recorded |-> FALSE, state |-> NoPoll, health |-> NoPoll]
Recording == [recorded |-> TRUE, state |-> NoPoll, health |-> NoPoll]

\* what a monitor has completed since startup: a state poll whose response
\* reported INFERENCE, a health poll whose response had status 200; kept for
\* the monitors whose record starts as Kept
Unkept == [kept |-> FALSE, inference |-> FALSE, ok |-> FALSE]
Kept == [kept |-> TRUE, inference |-> FALSE, ok |-> FALSE]

\* the response is HTTP 200 with the JSON object {"state": "INFERENCE"}
ReportsInference(poll) ==
    /\ poll.net = "ok" /\ poll.status = 200
    /\ poll.body.kind = "object" /\ poll.body.has_state
    /\ poll.body.state = "INFERENCE"

\* the response has status 200
Returns200(poll) == poll.net = "ok" /\ poll.status = 200

\* a request on a closed httpx.AsyncClient raises RuntimeError: the poll
\* ends as an error
Answers(poll) == client = "closed" => poll.net = "error"

\* _fetch_json: None on an exception of client.get, on a status other than
\* 200 and on a body response.json() rejects; else the parsed body
_fetch_json(poll) ==
    IF poll.net # "ok" THEN NoBody
    ELSE IF poll.status # 200 THEN NoBody
    ELSE IF poll.body.kind = "text" THEN NoBody
    ELSE poll.body

_fetch_status_any_response(poll) == poll.net = "ok"

\* _fetch_status
_fetch_status(poll) == poll.net = "ok" /\ poll.status = 200

\* the truth value of state_data: None, null and the empty containers are
\* falsy; JsonArray is a non-empty list, the objects here are non-empty
Falsy(data) == data.kind \in {"none", "null"}

\* state_data.get("state") on a value that is no dict: AttributeError
GetRaises(data) == ~Falsy(data) /\ data.kind # "object"

\* state_data.get("state") if state_data else None
state_of(data) ==
    IF Falsy(data) THEN None
    ELSE IF data.has_state THEN data.state ELSE None

\* monitor_backend: the state poll and the write of backend.state
monitor_state(i, poll) ==
    /\ monitor_tasks[i] = "state"
    /\ Answers(poll)
    /\ LET data == _fetch_json(poll) IN
         IF GetRaises(data)
         THEN /\ monitor_tasks' = [monitor_tasks EXCEPT ![i] = "failed"]
              /\ UNCHANGED backends
         ELSE /\ monitor_tasks' = [monitor_tasks EXCEPT ![i] = "health"]
              /\ backends' = [backends EXCEPT ![i].state = state_of(data)]
    /\ last_poll' = IF last_poll[i].recorded
                    THEN [last_poll EXCEPT ![i].state = poll, ![i].health = NoPoll]
                    ELSE last_poll
    /\ reported' = IF reported[i].kept /\ ReportsInference(poll)
                   THEN [reported EXCEPT ![i].inference = TRUE]
                   ELSE reported
    /\ UNCHANGED <<pick_lock, req, clamped, aggregate, lifespan, client, request>>

\* monitor_backend: the health poll, the write of backend.healthy and the
\* sleep of refresh_interval before the next cycle
monitor_health(i, poll) ==
    /\ monitor_tasks[i] = "health"
    /\ Answers(poll)
    /\ monitor_tasks' = [monitor_tasks EXCEPT ![i] = "state"]
    /\ backends' = [backends EXCEPT ![i].healthy = _fetch_status(poll)]
    /\ last_poll' = IF last_poll[i].recorded
                    THEN [last_poll EXCEPT ![i].health = poll]
                    ELSE last_poll
    /\ reported' = IF reported[i].kept /\ Returns200(poll)
                   THEN [reported EXCEPT ![i].ok = TRUE]
                   ELSE reported
    /\ UNCHANGED <<pick_lock, req, clamped, aggregate, lifespan, client, request>>

\* a cancelled monitor task receives CancelledError at the await it is
\* suspended in (client.get or asyncio.sleep); _fetch_json and _fetch_status
\* catch Exception only, so the task ends cancelled
monitor_cancelled(i) ==
    /\ monitor_tasks[i] = "cancelling"
    /\ monitor_tasks' = [monitor_tasks EXCEPT ![i] = "cancelled"]
    /\ UNCHANGED <<backends, pick_lock, req, clamped, aggregate,
                   lifespan, client, last_poll, request, reported>>

----------------------------------------------------------------------------
(* app.py: lifespan, the shutdown after the yield *)

\* a monitor task that has ended: cancelled, or failed with an exception
Terminated(i) == monitor_tasks[i] \in {"cancelled", "failed"}

\* for task in app.state.monitor_tasks: task.cancel()
\* cancel() on a task that has ended does nothing
shutdown_cancel ==
    /\ lifespan = "serving"
    /\ monitor_tasks' = [i \in DOMAIN monitor_tasks |->
                             IF Terminated(i) THEN monitor_tasks[i] ELSE "cancelling"]
    /\ lifespan' = "gather"
    /\ UNCHANGED <<backends, pick_lock, req, clamped, aggregate,
                   client, last_poll, request, reported>>

shutdown_gather_unawaited ==
    /\ lifespan = "gather"
    /\ lifespan' = "close"
    /\ UNCHANGED <<backends, pick_lock, monitor_tasks, req, clamped, aggregate,
                   client, last_poll, request, reported>>

\* await asyncio.gather(*monitor_tasks, return_exceptions=True): returns
\* when every monitor task has ended, their exceptions collected
shutdown_gather ==
    /\ lifespan = "gather"
    /\ \A i \in DOMAIN monitor_tasks : Terminated(i)
    /\ lifespan' = "close"
    /\ UNCHANGED <<backends, pick_lock, monitor_tasks, req, clamped, aggregate,
                   client, last_poll, request, reported>>

\* await app.state.client.aclose()
shutdown_close ==
    /\ lifespan = "close"
    /\ client' = "closed"
    /\ lifespan' = "stopped"
    /\ UNCHANGED <<backends, pick_lock, monitor_tasks, req, clamped, aggregate,
                   last_poll, request, reported>>

----------------------------------------------------------------------------
(* app.py: GET /api/v1/state *)

\* get_state: pool.to_dict()["state"]
get_state ==
    /\ aggregate' = aggregate_state(backends)
    /\ UNCHANGED <<backends, pick_lock, monitor_tasks, req, clamped,
                   lifespan, client, last_poll, request, reported>>

----------------------------------------------------------------------------
(* app.py: GET /health *)

\* health: 503 unless some backend is available, else 200 {"status": "healthy"}
health(r) ==
    /\ req[r].pc = "idle"
    /\ req' = IF ~any_healthy(backends)
              THEN [Raise(r, 503, "No healthy inference backends")
                        EXCEPT ![r].kind = "health"]
              ELSE [req EXCEPT ![r].pc = "done", ![r].kind = "health",
                               ![r].status = 200, ![r].detail = "healthy"]
    /\ UNCHANGED <<backends, pick_lock, monitor_tasks, clamped, aggregate,
                   lifespan, client, last_poll, request, reported>>

----------------------------------------------------------------------------
(* api.proxy.ProxyMiddleware.dispatch, as spec.md 4.5 step 3 and 4.6 state it *)

\* the characters of a path: the separator, a letter, a digit and the dot
PathChars == {"/", "v", "1", "."}
Digits == {"1"}

\* request paths: "/" followed by up to MaxPathLen - 1 characters
Paths ==
    UNION {{<<"/">> \o t : t \in [1..n -> PathChars]} : n \in 0..(MaxPathLen - 1)}

\* query strings: none, and one that holds a path separator
Queries == {<<>>, <<"a", "/">>}

\* positions of the "/" after the first character
Separators(p) == {k \in 2..Len(p) : p[k] = "/"}

\* end of the first segment: the position of its closing "/", 0 without one
SegmentEnd(p) ==
    IF Separators(p) = {} THEN 0
    ELSE CHOOSE k \in Separators(p) : \A j \in Separators(p) : k <= j

\* \d+(\.\d+)* : digits and dots, a digit first and last, no two dots in a row
DottedVersion(seg) ==
    /\ Len(seg) > 0
    /\ \A k \in 1..Len(seg) : seg[k] \in Digits \cup {"."}
    /\ seg[1] \in Digits /\ seg[Len(seg)] \in Digits
    /\ \A k \in 1..(Len(seg) - 1) : ~(seg[k] = "." /\ seg[k + 1] = ".")

\* the path matches ^/v\d+(\.\d+)*/
VersionedPrefix(p) ==
    /\ Len(p) >= 4
    /\ p[1] = "/" /\ p[2] = "v"
    /\ SegmentEnd(p) > 3
    /\ DottedVersion(SubSeq(p, 3, SegmentEnd(p) - 1))

\* the path without its leading version segment
rewrite(p) ==
    IF VersionedPrefix(p) THEN SubSeq(p, SegmentEnd(p), Len(p)) ELSE p

\* the raw path of a path and a query string: "?" and the query follow the
\* path when there is a query
RawPath(p, q) == IF q = <<>> THEN p ELSE p \o <<"?">> \o q

\* the path starts with "/v1/"
IsInferencePath(p) == Len(p) >= 4 /\ SubSeq(p, 1, 4) = <<"/", "v", "1", "/">>

\* the request as the server hands it to dispatch
Received(p, q) ==
    [pc |-> "received", original |-> p,
     path |-> p, url_path |-> p, raw_path |-> RawPath(p, q), query_string |-> q,
     proxied |-> 0, passed |-> 0, target |-> <<>>]

trim_versioned_prefix_path_only ==
    /\ request.pc = "received"
    /\ request' = [request EXCEPT !.pc = "trimmed",
                                  !.path = rewrite(request.path),
                                  !.url_path = rewrite(request.path),
                                  !.raw_path = rewrite(request.path)]
    /\ UNCHANGED <<backends, pick_lock, monitor_tasks, req, clamped, aggregate,
                   lifespan, client, last_poll, reported>>

\* the versioned-prefix trim, performed on every request before routing
trim_versioned_prefix ==
    /\ request.pc = "received"
    /\ request' = [request EXCEPT !.pc = "trimmed",
                                  !.path = rewrite(request.path),
                                  !.url_path = rewrite(request.path),
                                  !.raw_path = RawPath(rewrite(request.path),
                                                       request.query_string)]
    /\ UNCHANGED <<backends, pick_lock, monitor_tasks, req, clamped, aggregate,
                   lifespan, client, last_poll, reported>>

\* routing: /v1/{rest} goes to the inference proxy with the path it has now,
\* every other path to the next handler (call_next)
route ==
    /\ request.pc = "trimmed"
    /\ request' = IF IsInferencePath(request.path)
                  THEN [request EXCEPT !.pc = "done", !.proxied = @ + 1,
                                       !.target = request.path]
                  ELSE [request EXCEPT !.pc = "done", !.passed = @ + 1]
    /\ UNCHANGED <<backends, pick_lock, monitor_tasks, req, clamped, aggregate,
                   lifespan, client, last_poll, reported>>

----------------------------------------------------------------------------
(* Specifications *)

\* the application after startup: lifespan has built the pool and started
\* one monitor per backend
Init ==
    /\ backends = [i \in 1..NumBackends |-> Backend]
    /\ pick_lock = Free
    /\ monitor_tasks = [i \in 1..NumBackends |-> "state"]
    /\ req = [r \in 1..NumRequests |-> NewRequest]
    /\ clamped = FALSE
    /\ aggregate = None
    /\ lifespan = "serving"
    /\ client = "open"
    /\ last_poll = [i \in DOMAIN backends |-> Unrecorded]
    /\ request = NoRequest
    /\ reported = [i \in DOMAIN backends |-> Unkept]

Handlers(r) ==
    \/ proxy_inference(r)
    \/ proxy_fallback(r)
    \/ pick_acquire(r)
    \/ pick_choose(r)
    \/ start_acquire(r)
    \/ start_increment(r)
    \/ open_ok(r)
    \/ open_failed(r)
    \/ cancel(r)
    \/ stream_complete(r)
    \/ client_disconnect(r)
    \/ stream_failed(r)
    \/ cleanup(r)
    \/ release_acquire(r)
    \/ release_decrement(r)

Monitors(i) ==
    \/ \E poll \in StatePolls : monitor_state(i, poll)
    \/ \E poll \in HealthPolls : monitor_health(i, poll)

Next ==
    \/ \E r \in 1..NumRequests : Handlers(r)
    \/ \E i \in 1..NumBackends : Monitors(i)

Spec == Init /\ [][Next]_vars

\* the request handlers alone, on a pool whose monitors have reported and
\* whose availability then stays as it is
InitProxy ==
    /\ backends \in [1..NumBackends ->
                        {Backend,
                         [Backend EXCEPT !.healthy = TRUE, !.state = "INFERENCE"],
                         [Backend EXCEPT !.healthy = TRUE, !.state = "POW"],
                         [Backend EXCEPT !.healthy = FALSE, !.state = "INFERENCE"]}]
    /\ pick_lock = Free
    /\ monitor_tasks = [i \in 1..NumBackends |-> "state"]
    /\ req = [r \in 1..NumRequests |-> NewRequest]
    /\ clamped = FALSE
    /\ aggregate = None
    /\ lifespan = "serving"
    /\ client = "open"
    /\ last_poll = [i \in DOMAIN backends |-> Unrecorded]
    /\ request = NoRequest
    /\ reported = [i \in DOMAIN backends |-> Unkept]

NextProxy == \E r \in 1..NumRequests : Handlers(r)

SpecProxy == InitProxy /\ [][NextProxy]_vars

\* the pool's API under direct calls: the handlers plus callers of
\* mark_request_start and mark_request_done
InitApi ==
    /\ backends \in [1..NumBackends ->
                        {Backend, [Backend EXCEPT !.healthy = TRUE, !.state = "INFERENCE"]}]
    /\ pick_lock = Free
    /\ monitor_tasks = [i \in 1..NumBackends |-> "state"]
    /\ req = [r \in 1..NumRequests |-> NewRequest]
    /\ clamped = FALSE
    /\ aggregate = None
    /\ lifespan = "serving"
    /\ client = "open"
    /\ last_poll = [i \in DOMAIN backends |-> Unrecorded]
    /\ request = NoRequest
    /\ reported = [i \in DOMAIN backends |-> Unkept]

NextApi ==
    \E r \in 1..NumRequests :
        \/ Handlers(r)
        \/ \E i \in 1..NumBackends : call_mark_request_start(r, i)
        \/ \E i \in 1..NumBackends : call_mark_request_done(r, i)

SpecApi == InitApi /\ [][NextApi]_vars

\* selection alone: a pool of SelBackends backends that carries the load of
\* requests outside the model and whose availability stays fixed, and
\* SelRequests tasks that each pick once and keep the backend
InitSel ==
    /\ backends \in [1..SelBackends ->
                        {[Backend EXCEPT !.healthy = TRUE, !.state = s, !.active_requests = n] :
                            s \in {"INFERENCE", "POW"}, n \in 0..MaxLoad}]
    /\ pick_lock = Free
    /\ monitor_tasks = [i \in 1..SelBackends |-> "state"]
    /\ req = [r \in 1..SelRequests |-> NewRequest]
    /\ clamped = FALSE
    /\ aggregate = None
    /\ lifespan = "serving"
    /\ client = "open"
    /\ last_poll = [i \in DOMAIN backends |-> Unrecorded]
    /\ request = NoRequest
    /\ reported = [i \in DOMAIN backends |-> Unkept]

Selection(r) ==
    \/ proxy_inference(r)
    \/ pick_acquire(r)
    \/ pick_choose(r)
    \/ start_acquire(r)
    \/ start_increment(r)

NextSel == \E r \in 1..SelRequests : Selection(r)

SpecSel == InitSel /\ [][NextSel]_vars

\* the same from an idle pool whose backends are all available
InitIdle ==
    /\ backends = [i \in 1..SelBackends |->
                        [Backend EXCEPT !.healthy = TRUE, !.state = "INFERENCE"]]
    /\ pick_lock = Free
    /\ monitor_tasks = [i \in 1..SelBackends |-> "state"]
    /\ req = [r \in 1..IdleRequests |-> NewRequest]
    /\ clamped = FALSE
    /\ aggregate = None
    /\ lifespan = "serving"
    /\ client = "open"
    /\ last_poll = [i \in DOMAIN backends |-> Unrecorded]
    /\ request = NoRequest
    /\ reported = [i \in DOMAIN backends |-> Unkept]

NextIdle == \E r \in 1..IdleRequests : Selection(r)

SpecIdle == InitIdle /\ [][NextIdle]_vars

\* the aggregate alone: every assignment of states and health flags the
\* monitors can have written, then GET /api/v1/state
InitAgg ==
    /\ backends \in [1..NumBackends ->
                        {[Backend EXCEPT !.healthy = h, !.state = s] :
                            h \in BOOLEAN, s \in StateValues \cup {None}}]
    /\ pick_lock = Free
    /\ monitor_tasks = [i \in 1..NumBackends |-> "state"]
    /\ req = [r \in 1..NumRequests |-> NewRequest]
    /\ clamped = FALSE
    /\ aggregate = None
    /\ lifespan = "serving"
    /\ client = "open"
    /\ last_poll = [i \in DOMAIN backends |-> Unrecorded]
    /\ request = NoRequest
    /\ reported = [i \in DOMAIN backends |-> Unkept]

NextAgg == get_state

SpecAgg == InitAgg /\ [][NextAgg]_vars

\* the request handlers on a pool of every size up to NumBackends, the
\* empty pool of BackendPool(Settings(backend_urls=[])) included
InitFallback ==
    /\ \E k \in 0..NumBackends :
          /\ backends \in [1..k ->
                              {Backend,
                               [Backend EXCEPT !.healthy = TRUE, !.state = "INFERENCE"]}]
          /\ monitor_tasks = [i \in 1..k |-> "state"]
    /\ pick_lock = Free
    /\ req = [r \in 1..NumRequests |-> NewRequest]
    /\ clamped = FALSE
    /\ aggregate = None
    /\ lifespan = "serving"
    /\ client = "open"
    /\ last_poll = [i \in DOMAIN backends |-> Unrecorded]
    /\ request = NoRequest
    /\ reported = [i \in DOMAIN backends |-> Unkept]

SpecFallback == InitFallback /\ [][NextProxy]_vars

\* pick_backend calls beside the monitors, from startup
InitPick ==
    /\ backends = [i \in 1..PickBackends |-> Backend]
    /\ pick_lock = Free
    /\ monitor_tasks = [i \in 1..PickBackends |-> "state"]
    /\ req = [r \in 1..PickRequests |-> NewRequest]
    /\ clamped = FALSE
    /\ aggregate = None
    /\ lifespan = "serving"
    /\ client = "open"
    /\ last_poll = [i \in 1..PickBackends |-> Unrecorded]
    /\ request = NoRequest
    /\ reported = [i \in DOMAIN backends |-> Unkept]

NextPick ==
    \/ \E r \in 1..PickRequests : Selection(r)
    \/ \E i \in 1..PickBackends : Monitors(i)

SpecPick == InitPick /\ [][NextPick]_vars

\* proxied requests, fallback requests and direct callers of the pool's API
\* beside the monitors, from startup; the event loop runs every task that can
\* run, and asyncio.Lock wakes its waiters in turn
LockSteps(r) ==
    \/ pick_acquire(r)
    \/ pick_choose(r)
    \/ start_acquire(r)
    \/ start_increment(r)
    \/ release_acquire(r)
    \/ release_decrement(r)

NextLocks ==
    \/ \E r \in 1..PickRequests : Handlers(r)
    \/ \E r \in 1..PickRequests, i \in 1..PickBackends : call_mark_request_start(r, i)
    \/ \E r \in 1..PickRequests, i \in 1..PickBackends : call_mark_request_done(r, i)
    \/ \E i \in 1..PickBackends : Monitors(i)

SpecLocks ==
    /\ InitPick
    /\ [][NextLocks]_vars
    /\ \A r \in 1..PickRequests : WF_vars(LockSteps(r))

\* inference requests and GET /health beside the monitors, from startup, with
\* what every monitor has completed kept
InitStartup ==
    /\ backends = [i \in 1..PickBackends |-> Backend]
    /\ pick_lock = Free
    /\ monitor_tasks = [i \in 1..PickBackends |-> "state"]
    /\ req = [r \in 1..PickRequests |-> NewRequest]
    /\ clamped = FALSE
    /\ aggregate = None
    /\ lifespan = "serving"
    /\ client = "open"
    /\ last_poll = [i \in 1..PickBackends |-> Unrecorded]
    /\ request = NoRequest
    /\ reported = [i \in 1..PickBackends |-> Kept]

NextStartup ==
    \/ \E r \in 1..PickRequests : Selection(r)
    \/ \E r \in 1..PickRequests : health(r)
    \/ \E i \in 1..PickBackends : Monitors(i)

SpecStartup == InitStartup /\ [][NextStartup]_vars

\* the monitors from startup to the end of the shutdown, the responses of
\* one of them recorded; a fallback request, which needs no available
\* backend, is in flight on the first backend
InitMonitor ==
    /\ backends = [i \in 1..NumBackends |->
                        IF i = 1 THEN [Backend EXCEPT !.active_requests = 1]
                        ELSE Backend]
    /\ pick_lock = Free
    /\ monitor_tasks = [i \in 1..NumBackends |-> "state"]
    /\ req = [r \in 1..NumRequests |-> NewRequest]
    /\ clamped = FALSE
    /\ aggregate = None
    /\ lifespan = "serving"
    /\ client = "open"
    /\ \E j \in 1..NumBackends :
          last_poll = [i \in 1..NumBackends |->
                          IF i = j THEN Recording ELSE Unrecorded]
    /\ request = NoRequest
    /\ reported = [i \in DOMAIN backends |-> Unkept]

Shutdown ==
    \/ shutdown_cancel
    \/ shutdown_gather
    \/ shutdown_close

NextMonitor ==
    \/ \E i \in 1..NumBackends : Monitors(i)
    \/ \E i \in 1..NumBackends : monitor_cancelled(i)
    \/ Shutdown

SpecMonitor == InitMonitor /\ [][NextMonitor]_vars

\* one request through the middleware, for every path and query string
InitMiddleware ==
    /\ backends = [i \in 1..NumBackends |-> Backend]
    /\ pick_lock = Free
    /\ monitor_tasks = [i \in 1..NumBackends |-> "state"]
    /\ req = [r \in 1..NumRequests |-> NewRequest]
    /\ clamped = FALSE
    /\ aggregate = None
    /\ lifespan = "serving"
    /\ client = "open"
    /\ last_poll = [i \in 1..NumBackends |-> Unrecorded]
    /\ request \in {Received(p, q) : p \in Paths, q \in Queries}
    /\ reported = [i \in DOMAIN backends |-> Unkept]

NextMiddleware ==
    \/ trim_versioned_prefix
    \/ route

SpecMiddleware == InitMiddleware /\ [][NextMiddleware]_vars

----------------------------------------------------------------------------
(* Properties *)

\* a backend is available: healthy and in state INFERENCE
Available(i) == backends[i].healthy = TRUE /\ backends[i].state = "INFERENCE"

\* the requests a backend's counter is charged for: mark_request_start ran
\* for them and mark_request_done did not
Charged(i) == {r \in Tasks : req[r].backend = i /\ req[r].starts = 1 /\ req[r].releases = 0}

\* the request has ended: its task has nothing left to run
Ended(r) == req[r].pc = "done"

RECURSIVE SumActive(_, _)
SumActive(pool, n) == IF n = 0 THEN 0 ELSE pool[n].active_requests + SumActive(pool, n - 1)

\* C1: every proxied request that picked a backend releases it exactly once
\* (never twice, and once when the request has ended) when the response was
\* streamed to completion, when the upstream open failed and when the upstream
\* stream failed mid-body.
C1_ReleasedExactlyOnce ==
    \A r \in Tasks :
        req[r].kind = "proxy" =>
            /\ req[r].releases <= 1
            /\ (Ended(r) /\ req[r].outcome \in {"completed", "open_failed", "stream_failed"})
                   => req[r].releases = 1

\* C2: a proxied request that ended by a client disconnect or by the
\* cancellation of its task, after pick_backend returned a backend, has
\* released that backend.
C2_ReleasedAfterCancellation ==
    \A r \in Tasks :
        (req[r].kind = "proxy" /\ Ended(r) /\ req[r].starts = 1
             /\ req[r].outcome \in {"disconnected", "cancelled"})
            => req[r].releases >= 1

\* C3: active_requests is never negative, and a mark_request_done that runs
\* while it is 0 leaves it at 0.
C3_NeverNegative ==
    /\ [](\A i \in Pool : backends[i].active_requests >= 0)
    /\ [][\A r \in Tasks :
            (req[r].pc = "release_dec" /\ req'[r].pc # "release_dec"
                 /\ backends[req[r].backend].active_requests = 0)
                => backends'[req[r].backend].active_requests = 0]_vars

\* C3 witness: a mark_request_done has run on a counter that was 0
C3_Witness == clamped /\ \A i \in Pool : backends[i].active_requests = 0

\* C4: each counter equals the number of requests in flight on its backend
\* (charged and not ended), so with every request ended all counters are 0.
C4_CounterIsInFlight ==
    /\ \A i \in Pool :
           backends[i].active_requests = Cardinality({r \in Charged(i) : ~Ended(r)})
    /\ (\A r \in Tasks : req[r].pc \in {"idle", "done"})
           => \A i \in Pool : backends[i].active_requests = 0

\* C5: with a backend available, the selection under the lock takes an
\* available backend whose counter is smallest, the earliest in configuration
\* order among those tied, never fails, and the increment that follows adds 1
\* to that backend's counter and leaves the others.
C5_LeastLoadedFirst ==
    [][\A r \in Tasks :
        /\ (req[r].pc = "choose" /\ req'[r].pc # "choose" /\ \E i \in Pool : Available(i))
               => /\ req'[r].pc = "start_lock"
                  /\ req'[r].backend \in Pool
                  /\ Available(req'[r].backend)
                  /\ \A i \in Pool :
                        Available(i) =>
                            \/ backends[req'[r].backend].active_requests
                                   < backends[i].active_requests
                            \/ /\ backends[req'[r].backend].active_requests
                                      = backends[i].active_requests
                               /\ req'[r].backend <= i
        /\ (req[r].pc = "start_inc" /\ req'[r].pc # "start_inc")
               => /\ req'[r].backend = req[r].backend
                  /\ \A i \in Pool :
                        backends'[i].active_requests =
                            backends[i].active_requests + (IF i = req[r].backend THEN 1 ELSE 0)
      ]_vars

\* C5 witness: counters 3, 1, 1, all available; the one pick returned the
\* second backend, whose counter is now 2
C5_Witness ==
    /\ Len(backends) = 3
    /\ \A i \in Pool : Available(i)
    /\ \E r \in Tasks :
          /\ req[r].pc = "open" /\ req[r].backend = 2
          /\ \A q \in Tasks \ {r} : req[q].pc = "idle"
    /\ backends[1].active_requests = 3
    /\ backends[2].active_requests = 2
    /\ backends[3].active_requests = 1

\* C6: on a pool that starts idle with every backend available, the counters
\* sum to the number of picks that have returned and any two of them differ
\* by at most 1.
C6_Balanced ==
    /\ SumActive(backends, Len(backends))
           = Cardinality({r \in Tasks : req[r].pc = "open"})
    /\ \A i, j \in Pool :
           backends[i].active_requests - backends[j].active_requests <= 1

\* C6 witness: every picker has returned, on more pickers than backends
C6_Witness ==
    /\ \A r \in Tasks : req[r].pc = "open"
    /\ Cardinality(Tasks) > Len(backends)
    /\ \E i \in Pool : backends[i].active_requests = 2

\* C7: a selection that finds no backend available ends the request with 503;
\* no counter changes, no upstream request is opened.
C7_UnavailableIs503 ==
    [][\A r \in Tasks :
        (req[r].pc = "choose" /\ req'[r].pc # "choose" /\ ~ \E i \in Pool : Available(i))
            => /\ Ended(r)'
               /\ req'[r].status = 503
               /\ req'[r].upstream = "none"
               /\ req'[r].starts = 0
               /\ \A i \in Pool :
                     backends'[i].active_requests = backends[i].active_requests
      ]_vars

\* C7 witness: a proxied request was answered 503 while a healthy backend
\* was in another state than INFERENCE
C7_Witness ==
    /\ \E r \in Tasks : req[r].kind = "proxy" /\ Ended(r) /\ req[r].status = 503
    /\ \E i \in Pool : backends[i].healthy /\ backends[i].state # "INFERENCE"
    /\ ~ \E i \in Pool : Available(i)

\* C8: a proxied request whose upstream open failed is answered 502 "Upstream
\* request failed" only after its backend was released; it then charges no
\* counter, and each counter is what the other requests charge.
C8_OpenFailureReleases ==
    \A r \in Tasks :
        (req[r].kind = "proxy" /\ req[r].outcome = "open_failed")
            => /\ Ended(r) <=> req[r].status = 502
               /\ Ended(r) =>
                     /\ req[r].detail = "Upstream request failed"
                     /\ req[r].releases = 1
                     /\ \A i \in Pool :
                           backends[i].active_requests = Cardinality(Charged(i) \ {r})

\* C8 witness: a 502 for one request while the backend it had picked still
\* serves another
C8_Witness ==
    \E r \in Tasks :
        /\ req[r].kind = "proxy" /\ req[r].status = 502
        /\ backends[req[r].backend].active_requests = 1

\* the priority list of the aggregate state
PriorityList == <<"INFERENCE", "POW", "TRAIN", "STOPPED">>

\* the places of the priority list that are the state of some backend
Listed == {k \in DOMAIN PriorityList : \E i \in Pool : backends[i].state = PriorityList[k]}

FirstListed == PriorityList[CHOOSE k \in Listed : \A m \in Listed : k <= m]

\* C9 as stated: the aggregate is the first priority value that is some
\* backend's state, and it is STOPPED exactly when no backend has a known
\* state.
C9_StoppedIffUnknown ==
    aggregate # None =>
        /\ Listed # {} => aggregate = FirstListed
        /\ aggregate = "STOPPED" <=> \A i \in Pool : backends[i].state = None

\* C9 amended: the aggregate is the first priority value that is some
\* backend's state, and STOPPED when none of the priority values is.
C9_FirstListedElseStopped ==
    aggregate # None =>
        aggregate = IF Listed # {} THEN FirstListed ELSE "STOPPED"

\* C9 witness: STOPPED for a pool with a known state outside the list
C9_Witness ==
    /\ aggregate = "STOPPED"
    /\ \E i \in Pool : backends[i].state = "LOADING"

\* C10: a monitor task never ends: whatever the polls return it is at its
\* state poll or at its health poll.
C10_MonitorNeverEnds ==
    \A i \in Pool : monitor_tasks[i] \in {"state", "health"}

\* C11: the fallback route takes the first configured backend whether or not
\* it is available; it has incremented that backend's counter once before the
\* upstream call and decrements it once when the request completes or the
\* upstream open fails (502); its steps leave every other counter; on an
\* empty pool it answers 503 "No MLNode backends configured" and touches no
\* counter.
C11_FallbackFirstBackend ==
    /\ [](\A r \in Tasks :
            req[r].kind = "fallback" =>
                /\ req[r].backend = (IF Len(backends) = 0 THEN 0 ELSE 1)
                /\ req[r].starts <= 1 /\ req[r].releases <= 1
                /\ req[r].upstream # "none" => req[r].starts = 1
                /\ (Ended(r) /\ req[r].outcome \in {"completed", "open_failed"})
                       => req[r].releases = 1
                /\ (Ended(r) /\ req[r].outcome = "open_failed") => req[r].status = 502
                /\ Len(backends) = 0 =>
                       /\ Ended(r) /\ req[r].status = 503
                       /\ req[r].detail = "No MLNode backends configured"
                       /\ req[r].starts = 0 /\ req[r].upstream = "none")
    /\ [][\A r \in Tasks :
            (req'[r].kind = "fallback" /\ req'[r] # req[r]) =>
                /\ \A i \in Pool \ {1} :
                      backends'[i].active_requests = backends[i].active_requests
                /\ req[r].pc = "idle" => backends' = backends
                /\ req[r].pc = "start_inc" =>
                      backends'[1].active_requests = backends[1].active_requests + 1
                /\ req[r].pc = "release_dec" =>
                      backends'[1].active_requests = backends[1].active_requests - 1
      ]_vars

\* C11 witness: a fallback request has completed and released the first
\* backend, which is not available while the second is
C11_Witness ==
    /\ Len(backends) = 2
    /\ ~Available(1) /\ Available(2)
    /\ \E r \in Tasks :
          /\ req[r].kind = "fallback" /\ Ended(r) /\ req[r].outcome = "completed"
          /\ req[r].backend = 1 /\ req[r].releases = 1

\* C12: at shutdown every monitor task is cancelled first, the shutdown then
\* waits until all monitor tasks have terminated, and only then is the shared
\* client closed; no monitor poll is issued on a closed client.
C12_ShutdownOrder ==
    /\ [](/\ lifespan # "serving" =>
                \A i \in Pool : monitor_tasks[i] \in {"cancelling", "cancelled", "failed"}
          /\ lifespan \in {"close", "stopped"} => \A i \in Pool : Terminated(i)
          /\ client = "closed" <=> lifespan = "stopped")
    /\ [][/\ client' = "closed" => \A i \in Pool : Terminated(i)'
          /\ (\E i \in Pool :
                 /\ monitor_tasks[i] \in {"state", "health"}
                 /\ monitor_tasks'[i] # monitor_tasks[i]
                 /\ monitor_tasks'[i] # "cancelling") => client = "open"
      ]_vars

\* C12 witness: the client is closed after a monitor that was polling has
\* been cancelled
C12_Witness ==
    /\ client = "closed"
    /\ \E i \in Pool : monitor_tasks[i] = "cancelled" /\ backends[i].healthy

\* C13: the trim of a request whose path starts with a v<dotted version>
\* segment sets the logical path and the URL-view path to the remainder, the
\* raw path to the remainder followed by "?" and the query string when there
\* is one and to the bare remainder when there is none, and leaves the
\* query-string bytes as they were.
C13_TrimRewritesScope ==
    [][(request.pc = "received" /\ request'.pc = "trimmed"
            /\ VersionedPrefix(request.path)) =>
          LET k == CHOOSE j \in 3..Len(request.path) :
                       /\ request.path[j] = "/"
                       /\ \A i \in 3..(j - 1) : request.path[i] # "/"
              remainder == [i \in 1..(Len(request.path) - k + 1) |->
                                request.path[i + k - 1]]
          IN  /\ request'.path = remainder
              /\ request'.url_path = remainder
              /\ request'.query_string = request.query_string
              /\ request.query_string = <<>> => request'.raw_path = remainder
              /\ request.query_string # <<>> =>
                    request'.raw_path = remainder \o <<"?">> \o request.query_string
      ]_vars

\* C13 witness: /v1.1/v?a/ was trimmed to /v with raw path /v?a/
C13_Witness ==
    /\ request.pc = "trimmed"
    /\ request.original = <<"/", "v", "1", ".", "1", "/", "v">>
    /\ request.path = <<"/", "v">>
    /\ request.raw_path = <<"/", "v", "?", "a", "/">>
    /\ request.query_string = <<"a", "/">>

\* C14: the versioned-prefix rewrite is idempotent: rewriting a rewritten
\* path changes nothing, also when the remainder begins with a version-like
\* segment such as /v1/.
C14_RewriteIdempotent ==
    request.pc \in {"trimmed", "done"} => rewrite(request.path) = request.path

\* C15: with the trim applied to every request before routing, a request to
\* /v1/<rest> is handled by the inference proxy exactly once, is not passed to
\* the next handler and reaches the backend with path /v1/<rest>; a request to
\* any path outside /v1/ that carries no version prefix is passed to the next
\* handler exactly once and is not proxied.
C15_RoutedOnce ==
    request.pc = "done" =>
        /\ IsInferencePath(request.original) =>
              /\ request.proxied = 1 /\ request.passed = 0
              /\ request.target = request.original
        /\ (~IsInferencePath(request.original) /\ ~VersionedPrefix(request.original)) =>
              /\ request.passed = 1 /\ request.proxied = 0

\* the task is inside the composite of pick_backend: it holds the selection
\* lock and has not yet incremented the backend it chose
InPick(r) == req[r].kind = "proxy" /\ req[r].pc \in {"choose", "start_lock", "start_inc"}

\* C16: read availability, pick the minimum, increment the chosen backend is
\* atomic among pick_backend calls: at most one task is inside it, and it
\* holds the selection lock; when a picker examines the counters, every
\* earlier picker's increment is in them (the counters sum to the number of
\* earlier pickers), so no two pickers choose from the same counter values.
C16_PickAtomic ==
    /\ [](\A r1, r2 \in Tasks : (InPick(r1) /\ InPick(r2)) => r1 = r2)
    /\ [](\A r \in Tasks : InPick(r) => pick_lock = r)
    /\ [][\A r \in Tasks :
            (req[r].pc = "choose" /\ req'[r].pc # "choose") =>
                SumActive(backends, Len(backends))
                    = Cardinality({p \in Tasks \ {r} : req[p].backend # 0})
      ]_vars

\* C16 witness: a picker is inside the composite after an earlier picker has
\* returned, while a third waits for the selection lock
C16_Witness ==
    \E r1, r2, r3 \in Tasks :
        /\ req[r1].pc = "open"
        /\ InPick(r2) /\ req[r2].backend # 0 /\ req[r2].backend # req[r1].backend
        /\ req[r3].pc = "pick"

\* the request is between the return of pick_backend and the end of the
\* delivery of its response body
InCall(r) == req[r].kind = "proxy" /\ req[r].pc \in {"open", "stream"}

\* C17: on the success path the picked backend is never released before the
\* delivery of the body has ended (completed or disconnected): from the return
\* of pick_backend until then its counter counts the request (a single request
\* on an idle pool: 1 during the call, 0 after its completion), and the
\* upstream stream is closed before the counter is decremented.
C17_ReleaseAfterDelivery ==
    /\ [](\A r \in Tasks :
            /\ InCall(r) =>
                  /\ req[r].starts = 1 /\ req[r].releases = 0
                  /\ backends[req[r].backend].active_requests
                         >= Cardinality(Charged(req[r].backend))
                  /\ r \in Charged(req[r].backend)
            /\ (req[r].kind = "proxy" /\ req[r].status = 200 /\ req[r].releases > 0) =>
                  /\ req[r].outcome \in {"completed", "disconnected"}
                  /\ req[r].upstream = "closed"
            /\ (req[r].kind = "proxy" /\ \A p \in Tasks \ {r} : req[p].pc = "idle") =>
                  /\ InCall(r) =>
                        \A i \in Pool :
                            backends[i].active_requests
                                = (IF i = req[r].backend THEN 1 ELSE 0)
                  /\ (Ended(r) /\ req[r].outcome = "completed") =>
                        \A i \in Pool : backends[i].active_requests = 0)
    /\ [][\A r \in Tasks :
            (req[r].kind = "proxy" /\ req[r].status = 200
                 /\ req'[r].releases # req[r].releases) =>
                /\ req[r].upstream = "closed"
                /\ req[r].outcome \in {"completed", "disconnected"}
                /\ backends'[req[r].backend].active_requests
                       = backends[req[r].backend].active_requests - 1
      ]_vars

\* C17 witness: a single request on an idle pool has completed, its upstream
\* stream closed and its backend released
C17_Witness ==
    \E r \in Tasks :
        /\ req[r].kind = "proxy" /\ Ended(r) /\ req[r].outcome = "completed"
        /\ req[r].upstream = "closed" /\ req[r].releases = 1
        /\ \A p \in Tasks \ {r} : req[p].pc = "idle"
        /\ \A i \in Pool : backends[i].active_requests = 0

\* the state poll returned HTTP 200 with a JSON object
ObjectResponse(p) == p.net = "ok" /\ p.status = 200 /\ p.body.kind = "object"

\* C18: when a monitor completes a poll cycle, its backend's state is the
\* "state" value of the state response if that was HTTP 200 with a JSON object
\* (null without the key) and null after a failed state poll, and healthy is
\* true exactly if the health poll returned HTTP 200; a monitor's step changes
\* only its own backend's state and healthy, never a counter or another
\* backend.
C18_MonitorWrites ==
    [][/\ \A i \in Pool :
            (last_poll[i].recorded /\ monitor_tasks[i] = "health"
                 /\ monitor_tasks'[i] = "state") =>
                LET sp == last_poll'[i].state
                    hp == last_poll'[i].health
                IN  /\ sp # NoPoll /\ hp # NoPoll
                    /\ ObjectResponse(sp) =>
                          backends'[i].state
                              = (IF sp.body.has_state THEN sp.body.state ELSE None)
                    /\ (sp.net # "ok" \/ sp.status # 200 \/ sp.body.kind = "text") =>
                          backends'[i].state = None
                    /\ backends'[i].healthy = TRUE <=> (hp.net = "ok" /\ hp.status = 200)
                    /\ backends'[i].healthy \in BOOLEAN
       /\ \A i \in Pool :
            /\ backends'[i].active_requests = backends[i].active_requests
            /\ backends'[i].lock = backends[i].lock
            /\ backends'[i] # backends[i] =>
                  /\ monitor_tasks[i] \in {"state", "health"}
                  /\ monitor_tasks'[i] # monitor_tasks[i]
                  /\ \A j \in Pool \ {i} : backends'[j] = backends[j]
      ]_vars

\* C18 witness: a cycle was completed whose state poll returned 200 with
\* {"state": "POW"} and whose health poll returned 500, on a backend with a
\* request in flight
C18_Witness ==
    \E i \in Pool :
        /\ last_poll[i].recorded /\ monitor_tasks[i] = "state"
        /\ last_poll[i].state = [net |-> "ok", status |-> 200, body |-> JsonObject("POW")]
        /\ last_poll[i].health = [net |-> "ok", status |-> 500, body |-> Text]
        /\ backends[i].state = "POW" /\ backends[i].healthy = FALSE
        /\ backends[i].active_requests = 1

\* C19: pick_backend returns only a backend that was healthy and in state
\* INFERENCE when it was examined under the selection lock; a backend the
\* monitor has made unavailable is returned by no pick_backend call that
\* examines the pool before the monitor makes it available again; the
\* requests already assigned to a backend keep it whatever the monitor writes.
C19_PicksOnlyAvailable ==
    [][/\ \A r \in Tasks :
            (req[r].pc = "choose" /\ req'[r].pc # "choose") =>
                /\ pick_lock = r
                /\ req'[r].backend # 0 =>
                      /\ backends[req'[r].backend].healthy = TRUE
                      /\ backends[req'[r].backend].state = "INFERENCE"
                /\ req'[r].backend = 0 =>
                      /\ \A i \in Pool : ~Available(i)
                      /\ req'[r].status = 503
       /\ \A r \in Tasks :
            req[r].backend # 0 => req'[r].backend = req[r].backend
       /\ (\E i \in Pool : monitor_tasks'[i] # monitor_tasks[i]) => req' = req
      ]_vars

\* C19 witness: a request is in flight on a backend the monitor has since
\* found unhealthy, its state still INFERENCE, and a pick_backend call that
\* started afterwards did not return it
C19_Witness ==
    \E r1, r2 \in Tasks :
        /\ req[r1].pc = "open"
        /\ backends[req[r1].backend].state = "INFERENCE"
        /\ ~backends[req[r1].backend].healthy
        /\ backends[req[r1].backend].active_requests = 1
        /\ req[r2].outcome = "unavailable" /\ req[r2].status = 503

\* the task is inside pick_backend, release_backend, mark_request_start or
\* mark_request_done: it waits for a lock or holds one
InLockedCall(r) ==
    req[r].pc \in {"pick", "choose", "start_lock", "start_inc", "release_lock", "release_dec"}

\* the task awaits I/O: the upstream open, the body, the close of the stream
AtIO(r) == req[r].pc \in {"open", "stream", "cleanup"}

HoldsLock(r) == pick_lock = r \/ \E i \in Pool : backends[i].lock = r

\* C20: the selection lock is taken before a counter lock, never after it; no
\* lock is held across an upstream request, a body read or write or a monitor
\* poll (monitors take no lock); and every pick_backend, release_backend,
\* mark_request_start and mark_request_done call returns, under any
\* interleaving of requests, fallback requests, direct callers and monitors.
C20_LocksReturn ==
    /\ [](\A r \in Tasks :
            /\ pick_lock = r =>
                  req[r].kind = "proxy" /\ req[r].pc \in {"choose", "start_lock", "start_inc"}
            /\ \A i \in Pool :
                  backends[i].lock = r =>
                      req[r].backend = i /\ req[r].pc \in {"start_inc", "release_dec"}
            /\ (AtIO(r) \/ req[r].pc \in {"idle", "done", "pick"}) => ~HoldsLock(r))
    /\ [][/\ \A r \in Tasks :
               (pick_lock' = r /\ pick_lock # r) => \A i \in Pool : backends[i].lock # r
          /\ (monitor_tasks' # monitor_tasks) =>
               /\ pick_lock' = pick_lock
               /\ \A i \in Pool : backends'[i].lock = backends[i].lock
      ]_vars
    /\ \A r \in 1..PickRequests : InLockedCall(r) ~> ~InLockedCall(r)

\* C20 witness: a picker that had to wait for the selection lock has returned
\* from pick_backend while the other request streams its body and the monitor
\* is between its polls
C20_Witness ==
    \E r1, r2 \in Tasks :
        /\ req[r1].pc = "stream" /\ req[r2].pc = "open"
        /\ req[r1].kind = "proxy" /\ req[r2].kind = "proxy"
        /\ req[r1].backend = req[r2].backend
        /\ backends[req[r1].backend].active_requests = 2
        /\ pick_lock = Free
        /\ \E i \in Pool : monitor_tasks[i] = "health"

\* no monitor has yet completed both a state poll reporting INFERENCE and a
\* health poll returning 200
BeforeFirstAvailable == \A i \in Pool : ~(reported[i].inference /\ reported[i].ok)

\* C21: every backend starts with state null, healthy false and no active
\* request; from startup until the monitor of some backend has completed a
\* state poll reporting INFERENCE and a health poll returning 200 no backend
\* is available, every pick_backend of an inference request made in that
\* window ends in 503 and GET /health answers 503.
C21_UnavailableAtStartup ==
    /\ \A i \in Pool :
          /\ backends[i].state = None
          /\ backends[i].healthy = FALSE
          /\ backends[i].active_requests = 0
    /\ [](BeforeFirstAvailable => \A i \in Pool : ~Available(i))
    /\ [][BeforeFirstAvailable =>
            \A r \in Tasks :
                /\ (req[r].pc = "choose" /\ req'[r].pc # "choose") =>
                      /\ req'[r].pc = "done" /\ req'[r].status = 503
                      /\ req'[r].detail = "No healthy inference backends available"
                      /\ req'[r].backend = 0 /\ backends' = backends
                /\ (req[r].pc = "idle" /\ req'[r].kind = "health") =>
                      /\ req'[r].pc = "done" /\ req'[r].status = 503
                      /\ req'[r].detail = "No healthy inference backends"
      ]_vars

\* C21 witness: a monitor has completed a state poll reporting INFERENCE but
\* no health poll returning 200; an inference request and GET /health were
\* both answered 503
C21_Witness ==
    /\ BeforeFirstAvailable
    /\ \E i \in Pool : reported[i].inference /\ backends[i].state = "INFERENCE"
    /\ \E r1, r2 \in Tasks :
          /\ req[r1].kind = "proxy" /\ req[r1].status = 503
          /\ req[r2].kind = "health" /\ req[r2].status = 503

====
